---- MODULE Spec2Model ----
(***************************************************************************)
(* State-machine model of BrainNetworksInPython/classes.py:                *)
(*   BrainNetwork  - a networkx Graph with cached partition, nodal and     *)
(*                   global measures, rich club and anatomical key lists;  *)
(*   GraphBundle   - a dict of named graphs.                               *)
(* Python dicts are modelled as functions whose DOMAIN is the key set.     *)
(* A BrainNetwork object is a record holding a reference (store id) to the *)
(* dicts `graph` and `_node` it points to, plus its own instance           *)
(* attributes.  Values produced by measure functions are abstract tags     *)
(* recording which function produced them (and on what input).             *)
(***************************************************************************)
EXTENDS Integers, Sequences, FiniteSets, TLC

VARIABLES
    obj,      \* BrainNetwork objects: object id -> instance record
    heap,     \* the dicts objects refer to: store id -> [graph, node]
    calls,    \* collaborator / measure functions invoked by the last operation
    last,     \* the last operation and its arguments
    ret,      \* outcome of the last operation ("ok" or the exception raised)
    copied,   \* the graph returned by the last successful anatomical_copy
    bundle,   \* GraphBundle: the dict as a sequence of [name, graph] items
    blast,    \* the last GraphBundle operation and its arguments
    bret,     \* outcome of the last GraphBundle operation
    bout      \* what the last GraphBundle query returned and the members it visited

vars == <<obj, heap, calls, last, ret, copied, bundle, blast, bret, bout>>
netvars == <<obj, heap, calls, last, ret, copied>>
bundlevars == <<bundle, blast, bret, bout>>

----------------------------------------------------------------------------
(* Bounds *)

NumNodes == 2

Nodes == 1..NumNodes

\* The BrainNetwork objects of a run: A is constructed first, B from A.
Nets == {"A", "B"}

\* Module ids the community-detection collaborator may hand out.
ModuleIds == {"m0", "m1"}

None == "None"

----------------------------------------------------------------------------
(* Python dict helpers *)

EmptyDict == [k \in {} |-> None]

Has(d, k) == k \in DOMAIN d

\* d[k] = v
Put(d, k, v) == [x \in (DOMAIN d) \cup {k} |-> IF x = k THEN v ELSE d[x]]

\* d.update(e)
DictUpdate(d, e) ==
    [x \in (DOMAIN d) \cup (DOMAIN e) |-> IF x \in DOMAIN e THEN e[x] ELSE d[x]]

\* {k: v for k, v in d.items() if k in keys}
Restrict(d, keys) == [x \in (DOMAIN d) \cap keys |-> d[x]]

Range(f) == {f[x] : x \in DOMAIN f}

SeqToSet(s) == {s[i] : i \in 1..Len(s)}

----------------------------------------------------------------------------
(* networkx node-attribute helpers *)

\* nx.get_node_attributes(G, name): {n: d[name] for n, d in G.nodes.items() if name in d}
GetNodeAttributes(node, name) ==
    [n \in {m \in Nodes : Has(node[m], name)} |-> node[n][name]]

\* nx.set_node_attributes(G, values, name) with a dict of values: only the
\* nodes that are keys of values are written.
SetNodeAttributes(node, values, name) ==
    [n \in Nodes |-> IF n \in DOMAIN values
                     THEN Put(node[n], name, values[n])
                     ELSE node[n]]

\* dict(G.nodes(data="module")): the attribute, or None where a node lacks it
NodesData(node, name) ==
    [n \in Nodes |-> IF Has(node[n], name) THEN node[n][name] ELSE None]

----------------------------------------------------------------------------
(* Collaborators *)

\* An entry of the call log: function fn was invoked to produce `what`.
Call(what, fn) == [what |-> what, fn |-> fn]

\* A value computed by measure function `method` for node n.
Val(method, n) == [by |-> method, at |-> n]

\* calc_nodal_partition(G): a (nodal_partition, module_partition) pair; the
\* community detection is randomised, so any assignment may come back.
NodalPartitions == [Nodes -> ModuleIds]

ModulePartition(np) == [m \in Range(np) |-> {n \in Nodes : np[n] = m}]

\* The built-in registry of calculate_nodal_measures: name -> function.
BuiltinOrder ==
    <<"degree", "closeness", "betweenness", "shortest_path_length",
      "clustering", "participation_coefficient">>

nodal_measure_dict ==
    [m \in SeqToSet(BuiltinOrder) |->
        CASE m = "degree" -> "nx.degree"
          [] m = "closeness" -> "nx.closeness_centrality"
          [] m = "betweenness" -> "nx.betweenness_centrality"
          [] m = "shortest_path_length" -> "nx.betweenness_centrality"
          [] m = "clustering" -> "nx.clustering"
          [] m = "participation_coefficient" -> "participation_coefficient"]

\* method(self): the dict node -> value a measure function returns.  Only
\* participation_coefficient reads the cached graph['partition'].
ApplyMethod(method, st) ==
    IF method = "participation_coefficient"
    THEN [n \in Nodes |-> [by |-> method, at |-> n, part |-> st.graph["partition"]]]
    ELSE [n \in Nodes |-> Val(method, n)]

\* calculate_global_measures(G, partition, existing_global_measures) of
\* graph_measures: the suite of whole-graph measures; a measure already in
\* existing_global_measures is not computed again.  Modularity is the
\* measure that reads the partition handed in.
GlobalNames == {"average_clustering", "modularity"}

NoPartition == [n \in Nodes |-> None]

GlobalVal(name, partition) ==
    [by |-> name, part |-> IF name = "modularity" THEN partition ELSE NoPartition]

GraphMeasuresCalculateGlobalMeasures(partition, existing) ==
    [name \in GlobalNames \ DOMAIN existing |-> GlobalVal(name, partition)]

\* nx.rich_club_coefficient(G, normalized=False): a function of the topology,
\* which no BrainNetwork method changes.
RichClubCoefficient == "nx.rich_club_coefficient"

\* assign_node_names(G, parcellation): the `name` node attribute.
AssignNodeNames(st) ==
    [st EXCEPT !.node = SetNodeAttributes(@, [n \in Nodes |-> Val("parcellation", n)], "name")]

\* assign_node_centroids(G, centroids): the centroid node attribute and the
\* graph's `centroids` flag.
AssignNodeCentroids(st) ==
    [graph |-> Put(st.graph, "centroids", TRUE),
     node  |-> SetNodeAttributes(st.node, [n \in Nodes |-> Val("centroids", n)], "centroids")]

\* assign_nodal_distance(G): total_dist and average_dist on every node.
AssignNodalDistance(st) ==
    [st EXCEPT !.node =
        SetNodeAttributes(
            SetNodeAttributes(@, [n \in Nodes |-> Val("assign_nodal_distance", n)], "total_dist"),
            [n \in Nodes |-> Val("assign_nodal_distance", n)], "average_dist")]

\* assign_interhem(G): interhem and interhem_proportion on every node.
AssignInterhem(st) ==
    [st EXCEPT !.node =
        SetNodeAttributes(
            SetNodeAttributes(@, [n \in Nodes |-> Val("assign_interhem", n)], "interhem"),
            [n \in Nodes |-> Val("assign_interhem", n)], "interhem_proportion")]

\* make_graphs.anatomical_copy(G, nodal_keys, graph_keys): same nodes and
\* edges, only the listed node and graph attributes.
AnatomicalCopyOf(st, nodal_keys, graph_keys) ==
    [graph |-> Restrict(st.graph, SeqToSet(graph_keys)),
     node  |-> [n \in Nodes |-> Restrict(st.node[n], SeqToSet(nodal_keys))]]

----------------------------------------------------------------------------
(* Ordered dicts (insertion order matters): sequences of [k, v] items *)

OKeys(od) == {od[i].k : i \in 1..Len(od)}

OGet(od, key) == od[CHOOSE i \in 1..Len(od) : od[i].k = key].v

\* od[key] = value: an existing key keeps its place, a new key is appended
OPut(od, key, value) ==
    IF key \in OKeys(od)
    THEN [i \in 1..Len(od) |-> IF od[i].k = key THEN [k |-> key, v |-> value] ELSE od[i]]
    ELSE Append(od, [k |-> key, v |-> value])

RECURSIVE OUpdate(_, _)
\* od.update(items)
OUpdate(od, items) ==
    IF items = <<>> THEN od
    ELSE OUpdate(OPut(od, Head(items).k, Head(items).v), Tail(items))

----------------------------------------------------------------------------
(* Inputs *)

\* measure_list arguments: None, or a list of names
NoMeasureList == [given |-> FALSE, names |-> {}]

MeasureLists ==
    {NoMeasureList,
     [given |-> TRUE, names |-> {"degree", "interhem"}]}

\* additional_measures arguments: None (no items), an override of a built-in,
\* a new measure
AdditionalMeasures ==
    {<<>>,
     <<[k |-> "degree", v |-> "u1"]>>,
     <<[k |-> "custom", v |-> "u1"]>>}

\* lists of attribute keys handed to the anatomical setters
KeyLists == {<<"name">>, <<"name", "centroids">>}

\* cost arguments of threshold: percentages of the edges to keep
Costs == {10, 100}

NoOp == [op |-> "none", net |-> "A", force |-> FALSE,
         measure_list |-> NoMeasureList, additional |-> <<>>, names |-> <<>>,
         cost |-> 100, mst |-> TRUE]

----------------------------------------------------------------------------
(* GraphBundle inputs *)

\* Names of members: integers, strings, and strings key + "_R" + str(q).
IntName(i) == [kind |-> "int", key |-> "", num |-> i]
StrName(str) == [kind |-> "str", key |-> str, num |-> 0]

\* Graphs handed to a bundle: a BrainNetwork object and a numpy array.
G1 == [id |-> "G1", type |-> "BrainNetwork"]
M1 == [id |-> "M1", type |-> "ndarray"]

GraphLists == {<<>>, <<G1>>, <<M1>>, <<G1, M1>>}

\* name_list arguments: None, or a list of names
NoNameList == [given |-> FALSE, names |-> <<>>]

NameList(names) == [given |-> TRUE, names |-> names]

NameLists ==
    {NoNameList,
     NameList(<<>>),
     NameList(<<StrName("a")>>),
     NameList(<<IntName(1)>>),
     NameList(<<StrName("a"), IntName(1)>>),
     NameList(<<StrName("b"), StrName("b")>>)}

\* The most members of a bundle after add_graphs, and of a bundle that
\* create_random_graphs is called on.
MaxBundle == 3

\* key + name_scheme + str(q) with the default name_scheme "_R" (line 259)
RandName(key, q) == [kind |-> "rand", key |-> key, num |-> q]

\* The largest q of a generated name key_R<q> in a run.
MaxSuffix == 4

\* Numbers n of random graphs asked for
RandomCounts == {1, 2}

\* Keys handed to create_random_graphs
RandomKeys == {"a"}

\* get_random_graphs(source, n): n new random networks
RandomGraph == [id |-> "R", type |-> "BrainNetwork"]

GetRandomGraphs(source, n) == [i \in 1..n |-> RandomGraph]

\* Another BrainNetwork, with one node more than G1
G2 == [id |-> "G2", type |-> "BrainNetwork"]

\* G.nodes of a graph handed to a bundle
NodeSet(graph) == IF graph.id = "G2" THEN Nodes \cup {0} ELSE Nodes

\* Functions handed to apply: a function of one graph that raises on the
\* graphs listed in `raises`.  `reference` is used by the lambda of
\* report_small_world only.
UserFunction(id, raises) ==
    [kind |-> "user", id |-> id, raises |-> raises, reference |-> StrName("")]

NoFunction == UserFunction("none", {})

GraphFunctions == {UserFunction("f", {}), UserFunction("g", {"G2"})}

\* Names members are added under when the bundle is queried
MemberNames == {"a", "b", "graph_name"}

NoBundleOp == [op |-> "none", graph_list |-> <<>>, name_list |-> NoNameList,
               name |-> IntName(0), before |-> <<>>, fn |-> NoFunction]

\* Nothing returned: add_graphs, del and create_random_graphs return None.
NoOut == [value |-> <<>>, flag |-> FALSE, visited |-> <<>>]

----------------------------------------------------------------------------
(* BrainNetwork state *)

\* A graph built by weighted_graph_from_matrix: nodes without attributes.
FreshStore == [graph |-> EmptyDict, node |-> [n \in Nodes |-> EmptyDict]]

\* A networkx Graph that already carries attributes when it is wrapped:
\* a degree on node 1 only, one global measure, a rich-club curve.
PresetStore ==
    [graph |-> [k \in {"global_measures", "rich_club"} |->
                  IF k = "rich_club" THEN "preset"
                  ELSE [g \in {"average_clustering"} |-> [by |-> "preset", part |-> NoPartition]]],
     node  |-> [n \in Nodes |-> IF n = 1 THEN [k \in {"degree"} |-> Val("preset", n)]
                                 ELSE EmptyDict]]

\* Instance attributes after __init__: set_anatomical_*_attributes are bound
\* to the module-level functions; anatomical_node_attributes is not set;
\* anatomical_graph_attributes resolves to the method of the class.
NewObject(store) ==
    [live |-> TRUE, store |-> store,
     anatomical_node_attributes  |-> [set |-> FALSE, names |-> <<>>],
     anatomical_graph_attributes |-> [method |-> TRUE, names |-> <<>>]]

NoObject ==
    [live |-> FALSE, store |-> "A",
     anatomical_node_attributes  |-> [set |-> FALSE, names |-> <<>>],
     anatomical_graph_attributes |-> [method |-> TRUE, names |-> <<>>]]

Live == {n \in Nets : obj[n].live}

\* self.graph / self._node of object n
StoreOf(n) == heap[obj[n].store]

\* The anatomical labelling steps of __init__ (lines 39-46)
Labelled(st, parcellation, centroids) ==
    LET s1 == IF parcellation THEN AssignNodeNames(st) ELSE st
    IN  IF centroids THEN AssignNodeCentroids(s1) ELSE s1

NoCopy == [made |-> FALSE, graph |-> EmptyDict, node |-> [n \in Nodes |-> EmptyDict]]

----------------------------------------------------------------------------
(* BrainNetwork operations *)

\* BrainNetwork(network=<existing BrainNetwork a>, parcellation, centroids):
\* self.__dict__.update(network.__dict__) binds self.graph, self._node and
\* self._adj to the very dicts of `a`, and copies a's instance attributes.
Construct(b, a, parcellation, centroids) ==
    /\ ~obj[b].live
    /\ obj[a].live
    /\ obj' = [obj EXCEPT ![b] = [obj[a] EXCEPT !.live = TRUE]]
    /\ heap' = [heap EXCEPT ![obj[a].store] = Labelled(@, parcellation, centroids)]
    /\ calls' = (IF parcellation THEN <<Call("name", "assign_node_names")>> ELSE <<>>)
                \o (IF centroids THEN <<Call("centroids", "assign_node_centroids")>> ELSE <<>>)
    /\ last' = [NoOp EXCEPT !.op = "BrainNetwork", !.net = b]
    /\ ret' = "ok"
    /\ UNCHANGED <<copied, bundlevars>>

\* partition() without the test of line 62: the partition is computed anew
\* on every call.
PartitionStepUncached(st, cl, np) ==
    [st    |-> [graph |-> Put(st.graph, "partition", ModulePartition(np)),
                node  |-> SetNodeAttributes(st.node, np, "module")],
     calls |-> Append(cl, Call("partition", "calc_nodal_partition"))]

\* partition() (lines 58-66) on the dicts st, with np the nodal partition
\* the collaborator would return
PartitionStep(st, cl, np) ==
    IF ~Has(st.graph, "partition")
    THEN [st    |-> [graph |-> Put(st.graph, "partition", ModulePartition(np)),
                     node  |-> SetNodeAttributes(st.node, np, "module")],
          calls |-> Append(cl, Call("partition", "calc_nodal_partition"))]
    ELSE [st |-> st, calls |-> cl]

\* The results calc_nodal_partition may return when partition() calls it;
\* with the partition cached it is not called and nothing is drawn.
PartitionDraws(st) ==
    IF Has(st.graph, "partition") THEN {NoPartition} ELSE NodalPartitions

Partition(self) ==
    /\ obj[self].live
    /\ \E np \in PartitionDraws(StoreOf(self)) :
          LET r == PartitionStep(StoreOf(self), <<>>, np)
          IN  /\ heap' = [heap EXCEPT ![obj[self].store] = r.st]
              /\ calls' = r.calls
    /\ last' = [NoOp EXCEPT !.op = "partition", !.net = self]
    /\ ret' = "ok"
    /\ UNCHANGED <<obj, copied, bundlevars>>

\* The registry of one call (lines 108-124): the built-ins, restricted to
\* measure_list when one is given, updated with additional_measures.
RestrictedBuiltins(measure_list) ==
    LET keep(m) == (~measure_list.given) \/ (m \in measure_list.names)
        kept == SelectSeq(BuiltinOrder, keep)
    IN  [i \in 1..Len(kept) |-> [k |-> kept[i], v |-> nodal_measure_dict[kept[i]]]]

EffectiveRegistry(measure_list, additional) ==
    OUpdate(RestrictedBuiltins(measure_list), additional)

\* calc_nodal_measure without the cache test: every measure is computed.
calc_nodal_measure_always(st, cl, measure, method, force) ==
    [st    |-> [st EXCEPT !.node = SetNodeAttributes(@, ApplyMethod(method, st), measure)],
     calls |-> Append(cl, Call(measure, method))]

\* calc_nodal_measure without `or force`: a stored measure is never computed.
calc_nodal_measure_unforced(st, cl, measure, method, force) ==
    IF DOMAIN GetNodeAttributes(st.node, measure) = {}
    THEN [st    |-> [st EXCEPT !.node = SetNodeAttributes(@, ApplyMethod(method, st), measure)],
          calls |-> Append(cl, Call(measure, method))]
    ELSE [st |-> st, calls |-> cl]

\* calc_nodal_measure (lines 128-132)
calc_nodal_measure(st, cl, measure, method, force) ==
    IF (DOMAIN GetNodeAttributes(st.node, measure) = {}) \/ force
    THEN [st    |-> [st EXCEPT !.node = SetNodeAttributes(@, ApplyMethod(method, st), measure)],
          calls |-> Append(cl, Call(measure, method))]
    ELSE [st |-> st, calls |-> cl]

RECURSIVE CalcLoop(_, _, _, _)
\* for measure, method in nodal_measure_dict.items() (lines 134-135)
CalcLoop(items, st, cl, force) ==
    IF items = <<>> THEN [st |-> st, calls |-> cl]
    ELSE LET r == calc_nodal_measure(st, cl, Head(items).k, Head(items).v, force)
         IN  CalcLoop(Tail(items), r.st, r.calls, force)

\* Euclidean distance and interhem proportion (lines 139-143)
CentroidStep(st, cl, measure_list) ==
    IF Has(st.graph, "centroids") /\ st.graph["centroids"]
    THEN LET d == (~measure_list.given) \/ ("nodal_distance" \in measure_list.names)
             h == (~measure_list.given) \/ ("interhem" \in measure_list.names)
             s1 == IF d THEN AssignNodalDistance(st) ELSE st
             c1 == IF d THEN Append(cl, Call("nodal_distance", "assign_nodal_distance")) ELSE cl
         IN  [st    |-> IF h THEN AssignInterhem(s1) ELSE s1,
              calls |-> IF h THEN Append(c1, Call("interhem", "assign_interhem")) ELSE c1]
    ELSE [st |-> st, calls |-> cl]

NodalResult(st, np, force, measure_list, additional) ==
    LET p == PartitionStep(st, <<>>, np)
        l == CalcLoop(EffectiveRegistry(measure_list, additional), p.st, p.calls, force)
    IN  CentroidStep(l.st, l.calls, measure_list)

CalculateNodalMeasures(self, force, measure_list, additional) ==
    /\ obj[self].live
    /\ \E np \in PartitionDraws(StoreOf(self)) :
          LET r == NodalResult(StoreOf(self), np, force, measure_list, additional)
          IN  /\ heap' = [heap EXCEPT ![obj[self].store] = r.st]
              /\ calls' = r.calls
    /\ last' = [NoOp EXCEPT !.op = "calculate_nodal_measures", !.net = self,
                            !.force = force, !.measure_list = measure_list,
                            !.additional = additional]
    /\ ret' = "ok"
    /\ UNCHANGED <<obj, copied, bundlevars>>

\* calculate_rich_club without `or force`
RichClubResultUnforced(st, force) ==
    IF ~Has(st.graph, "rich_club")
    THEN [st    |-> [st EXCEPT !.graph = Put(@, "rich_club", RichClubCoefficient)],
          calls |-> <<Call("rich_club", "nx.rich_club_coefficient")>>]
    ELSE [st |-> st, calls |-> <<>>]

\* calculate_rich_club (lines 159-166)
RichClubResult(st, force) ==
    IF (~Has(st.graph, "rich_club")) \/ force
    THEN [st    |-> [st EXCEPT !.graph = Put(@, "rich_club", RichClubCoefficient)],
          calls |-> <<Call("rich_club", "nx.rich_club_coefficient")>>]
    ELSE [st |-> st, calls |-> <<>>]

CalculateRichClub(self, force) ==
    /\ obj[self].live
    /\ LET r == RichClubResult(StoreOf(self), force)
       IN  /\ heap' = [heap EXCEPT ![obj[self].store] = r.st]
           /\ calls' = r.calls
    /\ last' = [NoOp EXCEPT !.op = "calculate_rich_club", !.net = self, !.force = force]
    /\ ret' = "ok"
    /\ UNCHANGED <<obj, copied, bundlevars>>

\* calculate_global_measures that always takes the branch of lines 173-175
GlobalResultReplacing(st, force) ==
    [st EXCEPT !.graph =
        Put(@, "global_measures",
            GraphMeasuresCalculateGlobalMeasures(NodesData(st.node, "module"), EmptyDict))]

\* calculate_global_measures (lines 168-182)
GlobalResult(st, force) ==
    LET partition == NodesData(st.node, "module")
    IN  IF (~Has(st.graph, "global_measures")) \/ force
        THEN [st EXCEPT !.graph =
                 Put(@, "global_measures",
                     GraphMeasuresCalculateGlobalMeasures(partition, EmptyDict))]
        ELSE [st EXCEPT !.graph =
                 Put(@, "global_measures",
                     DictUpdate(st.graph["global_measures"],
                                GraphMeasuresCalculateGlobalMeasures(
                                    partition, st.graph["global_measures"])))]

CalculateGlobalMeasures(self, force) ==
    /\ obj[self].live
    /\ heap' = [heap EXCEPT ![obj[self].store] = GlobalResult(@, force)]
    /\ calls' = <<Call("global_measures", "calculate_global_measures")>>
    /\ last' = [NoOp EXCEPT !.op = "calculate_global_measures", !.net = self, !.force = force]
    /\ ret' = "ok"
    /\ UNCHANGED <<obj, copied, bundlevars>>

\* threshold_graph(G, cost, mst=mst) of make_graphs, as an entry of the call
\* log: the arguments it is invoked with.
ThresholdGraphCall(cost, mst) ==
    [what |-> "thresholded graph", fn |-> "threshold_graph", cost |-> cost, mst |-> mst]

\* threshold (lines 52-56): the call of line 56 passes mst=True.
Threshold(self, cost, mst) ==
    /\ obj[self].live
    /\ calls' = <<ThresholdGraphCall(cost, TRUE)>>
    /\ last' = [NoOp EXCEPT !.op = "threshold", !.net = self, !.cost = cost, !.mst = mst]
    /\ ret' = "ok"
    /\ UNCHANGED <<obj, heap, copied, bundlevars>>

\* The module-level functions anatomical_node_attributes and
\* anatomical_graph_attributes of make_graphs are called without arguments
\* at lines 293-294.  Handed one positional argument they either raise a
\* TypeError or return; they never see the BrainNetwork object.
ModuleFunctionOutcomes == {"TypeError", "ok"}

\* G.set_anatomical_node_attributes(names): the instance attribute bound at
\* line 49 shadows the method of lines 192-198, so the call goes to the
\* module-level function anatomical_node_attributes(names).
SetAnatomicalNodeAttributes(self, names, outcome) ==
    /\ obj[self].live
    /\ calls' = <<Call("names", "make_graphs.anatomical_node_attributes")>>
    /\ last' = [NoOp EXCEPT !.op = "set_anatomical_node_attributes", !.net = self,
                            !.names = names]
    /\ ret' = outcome
    /\ UNCHANGED <<obj, heap, copied, bundlevars>>

\* G.set_anatomical_graph_attributes(names): the class has no method of this
\* name; the instance attribute bound at line 50 is the module-level function
\* anatomical_graph_attributes.
SetAnatomicalGraphAttributes(self, names, outcome) ==
    /\ obj[self].live
    /\ calls' = <<Call("names", "make_graphs.anatomical_graph_attributes")>>
    /\ last' = [NoOp EXCEPT !.op = "set_anatomical_graph_attributes", !.net = self,
                            !.names = names]
    /\ ret' = outcome
    /\ UNCHANGED <<obj, heap, copied, bundlevars>>

\* G.anatomical_graph_attributes(names): the method of lines 200-206 rebinds
\* the attribute of the same name to the list, after which the attribute is
\* a list and calling it raises a TypeError.
AnatomicalGraphAttributes(self, names) ==
    /\ obj[self].live
    /\ IF obj[self].anatomical_graph_attributes.method
       THEN /\ obj' = [obj EXCEPT ![self].anatomical_graph_attributes =
                          [method |-> FALSE, names |-> names]]
            /\ ret' = "ok"
       ELSE /\ obj' = obj
            /\ ret' = "TypeError"
    /\ calls' = <<>>
    /\ last' = [NoOp EXCEPT !.op = "anatomical_graph_attributes", !.net = self,
                            !.names = names]
    /\ UNCHANGED <<heap, copied, bundlevars>>

\* anatomical_copy (lines 184-190): reads self.anatomical_node_attributes
\* and self.anatomical_graph_attributes before calling the collaborator.  An
\* object without the first attribute raises AttributeError; the second is
\* the bound method of line 200 until that method has been called, and a
\* method is no list of keys the collaborator can iterate.
AnatomicalCopyResult(o, st) ==
    IF ~o.anatomical_node_attributes.set
    THEN [ret |-> "AttributeError", copied |-> NoCopy]
    ELSE IF o.anatomical_graph_attributes.method
    THEN [ret |-> "TypeError", copied |-> NoCopy]
    ELSE [ret |-> "ok",
          copied |-> [made  |-> TRUE,
                      graph |-> AnatomicalCopyOf(st, o.anatomical_node_attributes.names,
                                    o.anatomical_graph_attributes.names).graph,
                      node  |-> AnatomicalCopyOf(st, o.anatomical_node_attributes.names,
                                    o.anatomical_graph_attributes.names).node]]

AnatomicalCopy(self) ==
    /\ obj[self].live
    /\ ret' = AnatomicalCopyResult(obj[self], StoreOf(self)).ret
    /\ copied' = AnatomicalCopyResult(obj[self], StoreOf(self)).copied
    /\ calls' = IF ret' = "AttributeError" THEN <<>> ELSE <<Call("copy", "make_graphs.anatomical_copy")>>
    /\ last' = [NoOp EXCEPT !.op = "anatomical_copy", !.net = self]
    /\ UNCHANGED <<obj, heap, bundlevars>>

----------------------------------------------------------------------------
(* The BrainNetwork specification *)

\* Arguments of the constructor call that makes object A: network is a
\* matrix (a fresh graph) or a networkx Graph that carries attributes already.
ConstructorInputs ==
    {[network |-> FreshStore,  parcellation |-> FALSE, centroids |-> FALSE],
     [network |-> FreshStore,  parcellation |-> TRUE,  centroids |-> TRUE],
     [network |-> PresetStore, parcellation |-> FALSE, centroids |-> TRUE]}

\* Object A after BrainNetwork(network, parcellation, centroids)
InitNet ==
    /\ \E in \in ConstructorInputs :
          heap = [s \in Nets |-> IF s = "A"
                                 THEN Labelled(in.network, in.parcellation, in.centroids)
                                 ELSE FreshStore]
    /\ obj = [n \in Nets |-> IF n = "A" THEN NewObject("A") ELSE NoObject]
    /\ calls = <<>>
    /\ last = [NoOp EXCEPT !.op = "BrainNetwork"]
    /\ ret = "ok"
    /\ copied = NoCopy

InitBundleIdle ==
    /\ bundle = <<>>
    /\ blast = NoBundleOp
    /\ bret = "ok"
    /\ bout = NoOut

Init == InitNet /\ InitBundleIdle

\* The measure engine on one BrainNetwork
Next ==
    \/ \E self \in Nets : Partition(self)
    \/ \E self \in Nets, force \in BOOLEAN, ml \in MeasureLists, am \in AdditionalMeasures :
          CalculateNodalMeasures(self, force, ml, am)
    \/ \E self \in Nets, force \in BOOLEAN : CalculateRichClub(self, force)
    \/ \E self \in Nets, force \in BOOLEAN : CalculateGlobalMeasures(self, force)

Spec == Init /\ [][Next]_vars

----------------------------------------------------------------------------
(* GraphBundle operations *)

\* zip(name_list, graph_list) as a sequence of items
Zip(names, graphs) ==
    [i \in 1..(IF Len(names) < Len(graphs) THEN Len(names) ELSE Len(graphs)) |->
        [k |-> names[i], v |-> graphs[i]]]

\* name_list = [len(self) + i for i in range(len(graph_list))]  (line 222)
AutoNames(b, graph_list) == [i \in 1..Len(graph_list) |-> IntName(Len(b) + (i - 1))]

\* add_graphs that numbers the graphs itself whether or not names are given
AddGraphsResultAutoNamed(b, graph_list, name_list) ==
    IF name_list.given /\ Len(name_list.names) # Len(graph_list)
    THEN [ret |-> "RuntimeError", bundle |-> b]
    ELSE [ret |-> "ok",
          bundle |-> OUpdate(b, OUpdate(<<>>, Zip(AutoNames(b, graph_list), graph_list)))]

\* add_graphs (lines 220-228).  The loop of lines 225-227 rebinds its own
\* variable `graph` and changes neither graph_list nor the bundle; the dict
\* built from zip(name_list, graph_list) is then merged with dict.update.
AddGraphsResult(b, graph_list, name_list) ==
    IF ~name_list.given
    THEN [ret |-> "ok",
          bundle |-> OUpdate(b, OUpdate(<<>>, Zip(AutoNames(b, graph_list), graph_list)))]
    ELSE IF Len(name_list.names) # Len(graph_list)
    THEN [ret |-> "RuntimeError", bundle |-> b]
    ELSE [ret |-> "ok",
          bundle |-> OUpdate(b, OUpdate(<<>>, Zip(name_list.names, graph_list)))]

AddGraphs(graph_list, name_list) ==
    /\ Len(AddGraphsResult(bundle, graph_list, name_list).bundle) <= MaxBundle
    /\ bundle' = AddGraphsResult(bundle, graph_list, name_list).bundle
    /\ bret' = AddGraphsResult(bundle, graph_list, name_list).ret
    /\ blast' = [NoBundleOp EXCEPT !.op = "add_graphs", !.graph_list = graph_list,
                                  !.name_list = name_list, !.before = bundle]
    /\ bout' = NoOut
    /\ UNCHANGED netvars

\* del bundle[name] (inherited from dict), for a name in the bundle
RemoveGraph(name) ==
    /\ name \in OKeys(bundle)
    /\ bundle' = SelectSeq(bundle, LAMBDA it : it.k # name)
    /\ bret' = "ok"
    /\ blast' = [NoBundleOp EXCEPT !.op = "del", !.name = name, !.before = bundle]
    /\ bout' = NoOut
    /\ UNCHANGED netvars

\* Lines 266-268: q starts at len(self) and is lowered while key_R<q> is not
\* a name of the bundle and q > 0.
RECURSIVE SearchSuffix(_, _, _)
SearchSuffix(b, key, q) ==
    IF (RandName(key, q) \notin OKeys(b)) /\ (q > 0)
    THEN SearchSuffix(b, key, q - 1)
    ELSE q

\* Line 269: [key + name_scheme + str(i) for i in range(q+1, q+1+n)]
RandomNames(b, key, n) ==
    LET q == SearchSuffix(b, key, Len(b))
    IN  [i \in 1..n |-> RandName(key, q + i)]

\* create_random_graphs (lines 259-270) with name_list left out.  self[key]
\* raises KeyError when key is not a name of the bundle.
CreateRandomGraphsResult(b, key, n) ==
    IF StrName(key) \notin OKeys(b)
    THEN [ret |-> "KeyError", bundle |-> b]
    ELSE AddGraphsResult(b, GetRandomGraphs(OGet(b, StrName(key)), n),
                         NameList(RandomNames(b, key, n)))

CreateRandomGraphs(key, n) ==
    /\ Len(bundle) <= MaxBundle
    /\ \A i \in 1..n : RandomNames(bundle, key, n)[i].num <= MaxSuffix
    /\ bundle' = CreateRandomGraphsResult(bundle, key, n).bundle
    /\ bret' = CreateRandomGraphsResult(bundle, key, n).ret
    /\ blast' = [NoBundleOp EXCEPT !.op = "create_random_graphs", !.name = StrName(key),
                                  !.graph_list = GetRandomGraphs(G1, n),
                                  !.before = bundle]
    /\ bout' = NoOut
    /\ UNCHANGED netvars

\* small_coefficient(reference, graph) of graph_measures: the small-world
\* coefficient of graph relative to reference
SmallCoefficient(reference, graph) ==
    [by |-> "small_coefficient", ref |-> reference.id, on |-> graph.id]

\* lambda x: small_coefficient(self['graph_name'], x) of lines 281-282: the
\* key it looks up is the string 'graph_name', whatever graph_name is.
SmallWorldLambda(graph_name) ==
    [kind |-> "small_world", id |-> "lambda", raises |-> {},
     reference |-> StrName("graph_name")]

\* graph_function(graph), called by the loop of apply on bundle `self`
CallFunction(fn, graph, self) ==
    IF fn.kind = "user"
    THEN IF graph.id \in fn.raises
         THEN [raised |-> TRUE, error |-> "Error",
               value |-> [by |-> "", ref |-> "", on |-> ""]]
         ELSE [raised |-> FALSE, error |-> "",
               value |-> [by |-> fn.id, ref |-> "", on |-> graph.id]]
    ELSE IF fn.reference \notin OKeys(self)
         THEN [raised |-> TRUE, error |-> "KeyError",
               value |-> [by |-> "", ref |-> "", on |-> ""]]
         ELSE [raised |-> FALSE, error |-> "",
               value |-> SmallCoefficient(OGet(self, fn.reference), graph)]

\* apply whose loop skips a member the function raises on and goes on
RECURSIVE ApplyLoopSkipping(_, _, _, _, _)
ApplyLoopSkipping(items, self, fn, global_dict, visited) ==
    IF items = <<>>
    THEN [ret |-> "ok", value |-> global_dict, visited |-> visited]
    ELSE LET name == Head(items).k
             r == CallFunction(fn, Head(items).v, self)
         IN  ApplyLoopSkipping(Tail(items), self, fn,
                               IF r.raised THEN global_dict
                               ELSE OPut(global_dict, name, r.value),
                               Append(visited, name))

\* The loop of apply (lines 234-237) over the items left: an exception of
\* graph_function leaves the loop and the method, and nothing is returned.
RECURSIVE ApplyLoop(_, _, _, _, _)
ApplyLoop(items, self, fn, global_dict, visited) ==
    IF items = <<>>
    THEN [ret |-> "ok", value |-> global_dict, visited |-> visited]
    ELSE LET name == Head(items).k
             r == CallFunction(fn, Head(items).v, self)
         IN  IF r.raised
             THEN [ret |-> r.error, value |-> <<>>, visited |-> Append(visited, name)]
             ELSE ApplyLoop(Tail(items), self, fn,
                            OPut(global_dict, name, r.value), Append(visited, name))

\* apply (lines 230-237)
ApplyResult(b, fn) == ApplyLoop(b, b, fn, <<>>, <<>>)

Apply(fn) ==
    /\ bundle' = bundle
    /\ bret' = ApplyResult(bundle, fn).ret
    /\ bout' = [NoOut EXCEPT !.value = ApplyResult(bundle, fn).value,
                             !.visited = ApplyResult(bundle, fn).visited]
    /\ blast' = [NoBundleOp EXCEPT !.op = "apply", !.fn = fn, !.before = bundle]
    /\ UNCHANGED netvars

\* report_small_world (lines 272-283)
ReportSmallWorld(graph_name) ==
    /\ bundle' = bundle
    /\ bret' = ApplyResult(bundle, SmallWorldLambda(graph_name)).ret
    /\ bout' = [NoOut EXCEPT
                   !.value = ApplyResult(bundle, SmallWorldLambda(graph_name)).value,
                   !.visited = ApplyResult(bundle, SmallWorldLambda(graph_name)).visited]
    /\ blast' = [NoBundleOp EXCEPT !.op = "report_small_world",
                                  !.name = StrName(graph_name),
                                  !.fn = SmallWorldLambda(graph_name),
                                  !.before = bundle]
    /\ UNCHANGED netvars

\* is_nodal_match(H, G) of make_graphs: the two graphs have the same nodes
IsNodalMatch(H, G) == NodeSet(H) = NodeSet(G)

\* nodal_matches that compares the last member only with the first
NodalMatchesResultLastOnly(b) ==
    IF b = <<>>
    THEN [ret |-> "IndexError", flag |-> FALSE]
    ELSE [ret |-> "ok", flag |-> IsNodalMatch(b[1].v, b[Len(b)].v)]

\* nodal_matches (lines 285-290): list(self.values())[0] raises IndexError
\* on an empty bundle.
NodalMatchesResult(b) ==
    IF b = <<>>
    THEN [ret |-> "IndexError", flag |-> FALSE]
    ELSE LET H == b[1].v
         IN  [ret |-> "ok",
              flag |-> FALSE \notin {IsNodalMatch(H, b[i].v) : i \in 1..Len(b)}]

NodalMatches ==
    /\ bundle' = bundle
    /\ bret' = NodalMatchesResult(bundle).ret
    /\ bout' = [NoOut EXCEPT !.flag = NodalMatchesResult(bundle).flag]
    /\ blast' = [NoBundleOp EXCEPT !.op = "nodal_matches", !.before = bundle]
    /\ UNCHANGED netvars

\* No BrainNetwork object is tracked while a bundle is exercised.
InitNetIdle ==
    /\ heap = [s \in Nets |-> FreshStore]
    /\ obj = [n \in Nets |-> NoObject]
    /\ calls = <<>>
    /\ last = NoOp
    /\ ret = "ok"
    /\ copied = NoCopy

\* GraphBundle([], []): the empty bundle
InitBundle ==
    /\ bundle = <<>>
    /\ blast = [NoBundleOp EXCEPT !.op = "GraphBundle", !.name_list = NameList(<<>>)]
    /\ bret = "ok"
    /\ bout = NoOut

NextBundle ==
    \/ \E graph_list \in GraphLists, name_list \in NameLists :
          AddGraphs(graph_list, name_list)
    \/ \E i \in 1..MaxBundle : i <= Len(bundle) /\ RemoveGraph(bundle[i].k)

BundleInit == InitNetIdle /\ InitBundle

BundleSpec == BundleInit /\ [][NextBundle]_vars

\* A bundle with named members, random graphs made from member "a", and
\* removals.
NextRandom ==
    \/ \E name \in {"a", "b"} : AddGraphs(<<G1>>, NameList(<<StrName(name)>>))
    \/ \E key \in RandomKeys, n \in RandomCounts : CreateRandomGraphs(key, n)
    \/ \E i \in 1..Len(bundle) : RemoveGraph(bundle[i].k)

RandomSpec == BundleInit /\ [][NextRandom]_vars

\* A bundle of BrainNetworks added under names, removals, and the queries.
NextMembers ==
    \/ \E graph \in {G1, G2}, name \in MemberNames :
          AddGraphs(<<graph>>, NameList(<<StrName(name)>>))
    \/ \E i \in 1..Len(bundle) : RemoveGraph(bundle[i].k)
    \/ \E fn \in GraphFunctions : Apply(fn)
    \/ \E graph_name \in MemberNames : ReportSmallWorld(graph_name)
    \/ NodalMatches

MemberSpec == BundleInit /\ [][NextMembers]_vars

\* Thresholding a BrainNetwork, between calls that fill its caches
NextThreshold ==
    \/ \E self \in Nets, cost \in Costs, mst \in BOOLEAN : Threshold(self, cost, mst)
    \/ \E self \in Nets : Partition(self)
    \/ \E self \in Nets, force \in BOOLEAN : CalculateRichClub(self, force)
    \/ \E self \in Nets, force \in BOOLEAN : CalculateGlobalMeasures(self, force)

ThresholdSpec == Init /\ [][NextThreshold]_vars

\* Two BrainNetwork objects, the second constructed from the first, and
\* the cache-writing operations on either (nodal measures with their default
\* measure_list and additional_measures).
NextCopies ==
    \/ \E b \in Nets, a \in Nets, parcellation \in BOOLEAN, centroids \in BOOLEAN :
          Construct(b, a, parcellation, centroids)
    \/ \E self \in Nets : Partition(self)
    \/ \E self \in Nets, force \in BOOLEAN :
          CalculateNodalMeasures(self, force, NoMeasureList, <<>>)
    \/ \E self \in Nets, force \in BOOLEAN : CalculateRichClub(self, force)
    \/ \E self \in Nets, force \in BOOLEAN : CalculateGlobalMeasures(self, force)

CopySpec == Init /\ [][NextCopies]_vars

\* Two BrainNetwork objects, the anatomical key declarations and copies, and
\* measure computation with default arguments.
NextAnatomical ==
    \/ \E b \in Nets, a \in Nets, parcellation \in BOOLEAN, centroids \in BOOLEAN :
          Construct(b, a, parcellation, centroids)
    \/ \E self \in Nets : CalculateNodalMeasures(self, FALSE, NoMeasureList, <<>>)
    \/ \E self \in Nets : CalculateRichClub(self, FALSE)
    \/ \E self \in Nets : CalculateGlobalMeasures(self, FALSE)
    \/ \E self \in Nets, names \in KeyLists, outcome \in ModuleFunctionOutcomes :
          SetAnatomicalNodeAttributes(self, names, outcome)
    \/ \E self \in Nets, names \in KeyLists, outcome \in ModuleFunctionOutcomes :
          SetAnatomicalGraphAttributes(self, names, outcome)
    \/ \E self \in Nets, names \in KeyLists : AnatomicalGraphAttributes(self, names)
    \/ \E self \in Nets : AnatomicalCopy(self)

AnatomicalSpec == Init /\ [][NextAnatomical]_vars

----------------------------------------------------------------------------
(* Claims about the measure engine *)

\* The dicts of the object the step's operation ran on, before and after
Pre == heap[obj[last'.net].store]
Post == heap'[obj'[last'.net].store]

Invoked(cl, fn) == \E i \in 1..Len(cl) : cl[i].fn = fn

Computed(cl, what) == \E i \in 1..Len(cl) : cl[i].what = what

\* C1: partition() is memoized.  A partition() call on a network without a
\* 'partition' graph attribute invokes calc_nodal_partition exactly once and
\* stores the pair it returns (module partition in the graph, module id on
\* every node); with the attribute cached, a partition(), a
\* calculate_nodal_measures(force=False) or a calculate_global_measures call
\* does not invoke calc_nodal_partition and leaves the 'partition' attribute
\* and every node's module unchanged.
C1_PartitionMemoized ==
    [][ /\ (last'.op = "partition" /\ ~Has(Pre.graph, "partition")) =>
              /\ calls' = <<Call("partition", "calc_nodal_partition")>>
              /\ Has(Post.graph, "partition")
              /\ \A n \in Nodes : Has(Post.node[n], "module")
              /\ Post.graph["partition"] = ModulePartition(NodesData(Post.node, "module"))
        /\ ( /\ \/ last'.op = "partition"
                \/ last'.op = "calculate_nodal_measures" /\ ~last'.force
                \/ last'.op = "calculate_global_measures"
             /\ Has(Pre.graph, "partition") ) =>
              /\ ~Invoked(calls', "calc_nodal_partition")
              /\ Has(Post.graph, "partition")
              /\ Post.graph["partition"] = Pre.graph["partition"]
              /\ NodesData(Post.node, "module") = NodesData(Pre.node, "module")
      ]_vars

\* A partition() call answered from the cache.
C1_Witness ==
    /\ last.op = "partition"
    /\ calls = <<>>
    /\ Has(StoreOf(last.net).graph, "partition")
    /\ \A n \in Nodes : Has(StoreOf(last.net).node[n], "module")

\* The measure names of the registry a call builds, and the function the
\* registry holds for each: an additional_measures entry wins over a built-in.
RegistryNames(measure_list, additional) ==
    {m \in SeqToSet(BuiltinOrder) : (~measure_list.given) \/ (m \in measure_list.names)}
    \cup OKeys(additional)

RegistryFunction(m, additional) ==
    IF m \in OKeys(additional) THEN OGet(additional, m) ELSE nodal_measure_dict[m]

Stored(node, m) == \E n \in Nodes : Has(node[n], m)

C3_ForceRecomputes ==
    (last.op = "calculate_nodal_measures" /\ last.force) =>
        \A m \in RegistryNames(last.measure_list, last.additional) :
            /\ \E i \in 1..Len(calls) :
                  calls[i] = Call(m, RegistryFunction(m, last.additional))
            /\ \A n \in Nodes :
                  /\ Has(StoreOf(last.net).node[n], m)
                  /\ StoreOf(last.net).node[n][m] =
                        ApplyMethod(RegistryFunction(m, last.additional),
                                    StoreOf(last.net))[n]

\* A forced call that overrides the built-in degree on a network that had the
\* built-in measures on every node: closeness is stored although the call
\* was restricted to degree, so an earlier unrestricted call stored degree
\* too (the graph was built from a matrix: it has no rich-club curve).
C3_Witness ==
    /\ last.op = "calculate_nodal_measures"
    /\ last.force
    /\ last.measure_list = [given |-> TRUE, names |-> {"degree", "interhem"}]
    /\ last.additional = <<[k |-> "degree", v |-> "u1"]>>
    /\ ~Has(StoreOf(last.net).graph, "rich_club")
    /\ \A n \in Nodes :
          /\ Has(StoreOf(last.net).node[n], "closeness")
          /\ StoreOf(last.net).node[n]["degree"] = Val("u1", n)

\* The suite calculate_global_measures computes for a partition
GlobalSuite(partition) == [name \in GlobalNames |-> GlobalVal(name, partition)]

\* C4: calculate_global_measures(force=False) on a network with a
\* 'global_measures' cache keeps every cached measure with its value and adds
\* the measures the cache lacked, computed for the network's current module
\* assignment; with force=True, or without a cache, the attribute becomes the
\* freshly computed suite.
C4_GlobalUnion ==
    [][ (last'.op = "calculate_global_measures") =>
          /\ Has(Post.graph, "global_measures")
          /\ IF Has(Pre.graph, "global_measures") /\ ~last'.force
             THEN /\ \A k \in DOMAIN Pre.graph["global_measures"] :
                        /\ Has(Post.graph["global_measures"], k)
                        /\ Post.graph["global_measures"][k] = Pre.graph["global_measures"][k]
                  /\ \A k \in DOMAIN Post.graph["global_measures"] :
                        ~Has(Pre.graph["global_measures"], k) =>
                            Post.graph["global_measures"][k] =
                                GlobalVal(k, NodesData(Pre.node, "module"))
                  /\ DOMAIN Post.graph["global_measures"] =
                        GlobalNames \cup DOMAIN Pre.graph["global_measures"]
             ELSE Post.graph["global_measures"] = GlobalSuite(NodesData(Pre.node, "module"))
      ]_vars

\* A call with force=False that merged into a cache holding one measure: the
\* cached value is still there, and modularity has been added.
C4_Witness ==
    /\ last.op = "calculate_global_measures"
    /\ ~last.force
    /\ Has(StoreOf(last.net).graph, "global_measures")
    /\ StoreOf(last.net).graph["global_measures"]["average_clustering"].by = "preset"
    /\ Has(StoreOf(last.net).graph["global_measures"], "modularity")

\* C5: calculate_rich_club is memoized and touches nothing else.  With
\* force=False and a 'rich_club' attribute present the collaborator is not
\* invoked and the attribute is unchanged; otherwise the collaborator is
\* invoked once and the attribute is its result.  In either case every other
\* graph attribute and every node attribute is unchanged.
C5_RichClubMemoized ==
    [][ (last'.op = "calculate_rich_club") =>
          /\ IF Has(Pre.graph, "rich_club") /\ ~last'.force
             THEN /\ calls' = <<>>
                  /\ Post.graph["rich_club"] = Pre.graph["rich_club"]
             ELSE /\ calls' = <<Call("rich_club", "nx.rich_club_coefficient")>>
                  /\ Post.graph["rich_club"] = RichClubCoefficient
          /\ DOMAIN Post.graph = (DOMAIN Pre.graph) \cup {"rich_club"}
          /\ \A k \in (DOMAIN Pre.graph) \ {"rich_club"} : Post.graph[k] = Pre.graph[k]
          /\ Post.node = Pre.node
      ]_vars

\* A forced call on a network whose graph came with a rich-club curve (and a
\* global measure) attached: the curve has been replaced.
C5_Witness ==
    /\ last.op = "calculate_rich_club"
    /\ last.force
    /\ calls = <<Call("rich_club", "nx.rich_club_coefficient")>>
    /\ StoreOf(last.net).graph["rich_club"] = RichClubCoefficient
    /\ Has(StoreOf(last.net).graph, "global_measures")
    /\ Has(StoreOf(last.net).graph["global_measures"], "average_clustering")
    /\ StoreOf(last.net).graph["global_measures"]["average_clustering"].by = "preset"

----------------------------------------------------------------------------
(* Claims about BrainNetwork objects *)

CacheWritingOps ==
    {"partition", "calculate_nodal_measures", "calculate_global_measures",
     "calculate_rich_club"}

\* C6: a BrainNetwork constructed from another shares no mutable state with
\* it: a cache-writing operation (partition, calculate_nodal_measures,
\* calculate_global_measures, calculate_rich_club) on one object leaves the
\* graph attributes and the node attributes of every other object unchanged.
C6_NoSharedState ==
    [][ (last'.op \in CacheWritingOps) =>
          \A n \in Nets :
              (obj[n].live /\ n # last'.net) =>
                  /\ heap'[obj'[n].store].graph = heap[obj[n].store].graph
                  /\ heap'[obj'[n].store].node = heap[obj[n].store].node
      ]_vars

\* C7: declaring anatomical keys replaces the previous declaration: a
\* set_anatomical_node_attributes(names) or
\* set_anatomical_graph_attributes(names) call succeeds, and afterwards the
\* object's declared node-key (graph-key) list is the argument of that call.
C7_DeclareReplaces ==
    /\ (last.op = "set_anatomical_node_attributes") =>
          /\ ret = "ok"
          /\ obj[last.net].anatomical_node_attributes =
                [set |-> TRUE, names |-> last.names]
    /\ (last.op = "set_anatomical_graph_attributes") =>
          /\ ret = "ok"
          /\ obj[last.net].anatomical_graph_attributes =
                [method |-> FALSE, names |-> last.names]

\* C8: anatomical_copy() succeeds on every constructed network and returns a
\* graph whose node attributes are exactly the declared anatomical node keys
\* the node carries and whose graph attributes are exactly the declared
\* anatomical graph keys the graph carries; 'partition', 'global_measures'
\* and 'rich_club' are not among them.
C8_AnatomicalCopyKeys ==
    (last.op = "anatomical_copy") =>
        /\ ret = "ok"
        /\ copied.made
        /\ \A n \in Nodes :
              copied.node[n] =
                  Restrict(StoreOf(last.net).node[n],
                           SeqToSet(obj[last.net].anatomical_node_attributes.names))
        /\ copied.graph =
              Restrict(StoreOf(last.net).graph,
                       SeqToSet(obj[last.net].anatomical_graph_attributes.names))
        /\ DOMAIN copied.graph \cap {"partition", "global_measures", "rich_club"} = {}

----------------------------------------------------------------------------
(* Claims about GraphBundle *)

Distinct(names) == \A i, j \in 1..Len(names) : names[i] = names[j] => i = j

NamedAdd ==
    /\ blast.op = "add_graphs"
    /\ blast.name_list.given
    /\ Len(blast.name_list.names) = Len(blast.graph_list)

\* C9 as stated: add_graphs(graphs, names) with len(names) = len(graphs)
\* grows the bundle by exactly len(graphs); afterwards every name of names
\* maps to the graph at its position, and every member present before is
\* still there under its name with the same graph.
C9_AddGraphsGrows ==
    NamedAdd =>
        /\ bret = "ok"
        /\ Len(bundle) = Len(blast.before) + Len(blast.graph_list)
        /\ \A i \in 1..Len(blast.graph_list) :
              /\ blast.name_list.names[i] \in OKeys(bundle)
              /\ OGet(bundle, blast.name_list.names[i]) = blast.graph_list[i]
        /\ \A k \in OKeys(blast.before) :
              k \in OKeys(bundle) /\ OGet(bundle, k) = OGet(blast.before, k)

\* The graph add_graphs binds to a name of names: the one at the last
\* position the name occurs at.
LastGiven(names, graphs, k) ==
    graphs[CHOOSE i \in 1..Len(names) :
              names[i] = k /\ \A j \in 1..Len(names) : names[j] = k => j <= i]

\* C9 (amended): add_graphs(graphs, names) with len(names) = len(graphs)
\* succeeds; afterwards the bundle's names are the old names and the names
\* given, each name once; every name given maps to the last graph given for
\* it, and every member under another name is unchanged.  When the names
\* given are pairwise distinct and none was a name of the bundle, the bundle
\* has grown by exactly len(graphs), every name maps to the graph at its
\* position, and no member present before has been overwritten.
C9_AddGraphsFreshNames ==
    NamedAdd =>
        /\ bret = "ok"
        /\ OKeys(bundle) = OKeys(blast.before) \cup SeqToSet(blast.name_list.names)
        /\ Cardinality(OKeys(bundle)) = Len(bundle)
        /\ \A k \in SeqToSet(blast.name_list.names) :
              OGet(bundle, k) = LastGiven(blast.name_list.names, blast.graph_list, k)
        /\ \A k \in OKeys(blast.before) \ SeqToSet(blast.name_list.names) :
              OGet(bundle, k) = OGet(blast.before, k)
        /\ ( /\ Distinct(blast.name_list.names)
             /\ SeqToSet(blast.name_list.names) \cap OKeys(blast.before) = {} ) =>
              /\ Len(bundle) = Len(blast.before) + Len(blast.graph_list)
              /\ \A i \in 1..Len(blast.graph_list) :
                    OGet(bundle, blast.name_list.names[i]) = blast.graph_list[i]
              /\ \A k \in OKeys(blast.before) :
                    k \in OKeys(bundle) /\ OGet(bundle, k) = OGet(blast.before, k)

\* Two graphs added under two new names to a bundle that had a member.
C9_Witness ==
    /\ NamedAdd
    /\ bret = "ok"
    /\ Len(blast.graph_list) = 2
    /\ Distinct(blast.name_list.names)
    /\ SeqToSet(blast.name_list.names) \cap OKeys(blast.before) = {}
    /\ Len(blast.before) >= 1
    /\ Len(bundle) = Len(blast.before) + 2

\* C10: add_graphs with a name list whose length differs from the number of
\* graphs fails with a LengthMismatchError and leaves the bundle unchanged.
C10_LengthMismatchError ==
    ( /\ blast.op = "add_graphs"
      /\ blast.name_list.given
      /\ Len(blast.name_list.names) # Len(blast.graph_list) ) =>
        /\ bret = "LengthMismatchError"
        /\ bundle = blast.before

AutoAdd ==
    /\ blast.op = "add_graphs"
    /\ ~blast.name_list.given

\* C11: add_graphs with names omitted numbers the graphs with integers that
\* are not names of the bundle, whatever was added or removed before: the
\* call succeeds, no member present before is rebound, and the bundle grows
\* by exactly len(graph_list).
C11_AutoNamesFresh ==
    AutoAdd =>
        /\ bret = "ok"
        /\ \A k \in OKeys(bundle) \ OKeys(blast.before) : k.kind = "int" /\ k.num >= 0
        /\ \A k \in OKeys(blast.before) :
              k \in OKeys(bundle) /\ OGet(bundle, k) = OGet(blast.before, k)
        /\ Len(bundle) = Len(blast.before) + Len(blast.graph_list)

\* BrainNetwork(graph) of line 227: the BrainNetwork built from an input
BrainNetworkOf(graph) == [graph EXCEPT !.type = "BrainNetwork"]

\* The names an add_graphs call binds, given or numbered by the call
NamesBound ==
    IF blast.name_list.given
    THEN blast.name_list.names
    ELSE AutoNames(blast.before, blast.graph_list)

\* C12: every value held by a bundle is a BrainNetwork; after add_graphs,
\* a name bound by the call maps to the BrainNetwork built from the input
\* given for it (the input itself when that is a BrainNetwork already), never
\* to a raw input of another type.
C12_MembersAreNetworks ==
    /\ \A i \in 1..Len(bundle) : bundle[i].v.type = "BrainNetwork"
    /\ (blast.op = "add_graphs" /\ bret = "ok") =>
          \A k \in SeqToSet(NamesBound) :
              OGet(bundle, k) = BrainNetworkOf(LastGiven(NamesBound, blast.graph_list, k))

\* The suffixes j of the names key_R<j> in a bundle
Suffixes(b, key) == {j \in 0..(MaxSuffix + 1) : RandName(key, j) \in OKeys(b)}

\* One more than the highest suffix in use, 1 when there is none
NextSuffix(b, key) ==
    IF Suffixes(b, key) = {}
    THEN 1
    ELSE 1 + (CHOOSE j \in Suffixes(b, key) : \A i \in Suffixes(b, key) : i <= j)

RandomAdd ==
    /\ blast.op = "create_random_graphs"
    /\ blast.name \in OKeys(blast.before)

\* C13: create_random_graphs(key, n) with name_list left out names the new
\* graphs key_R<k> .. key_R<k+n-1>, k being one more than the highest suffix
\* of a name key_R<j> in the bundle (1 when there is none): no new name is a
\* name of the bundle already, no member is rebound, and the bundle grows by
\* exactly n.
C13_RandomNamesFresh ==
    RandomAdd =>
        LET n == Len(blast.graph_list)
            k == NextSuffix(blast.before, blast.name.key)
        IN  /\ bret = "ok"
            /\ OKeys(bundle) \ OKeys(blast.before) =
                  {RandName(blast.name.key, k + i) : i \in 0..(n - 1)}
            /\ \A m \in OKeys(blast.before) :
                  m \in OKeys(bundle) /\ OGet(bundle, m) = OGet(blast.before, m)
            /\ Len(bundle) = Len(blast.before) + n

\* C14: report_small_world(graph_name), graph_name being a name of the
\* bundle, succeeds and returns a dict whose keys are the names of the bundle,
\* each mapped to the small-world coefficient of that member relative to the
\* member named graph_name.
C14_SmallWorldReference ==
    (blast.op = "report_small_world" /\ blast.name \in OKeys(bundle)) =>
        /\ bret = "ok"
        /\ OKeys(bout.value) = OKeys(bundle)
        /\ \A k \in OKeys(bundle) :
              OGet(bout.value, k) =
                  SmallCoefficient(OGet(bundle, blast.name), OGet(bundle, k))

\* The positions of the members a function raises on
Failing(fn, b) == {i \in 1..Len(b) : CallFunction(fn, b[i].v, b).raised}

FirstFailing(fn, b) ==
    CHOOSE i \in Failing(fn, b) : \A j \in Failing(fn, b) : i <= j

\* C16: apply(fn) calls fn on the members in insertion order and returns a
\* dict with one entry per member, name -> fn(member), in that order.  When
\* fn raises on a member, apply raises that error, returns nothing, and fn
\* has been called on the members up to that one and on no later member.
\* The bundle is the same before and after.
C16_ApplyInOrder ==
    (blast.op = "apply") =>
        /\ bundle = blast.before
        /\ (Failing(blast.fn, bundle) = {}) =>
              /\ bret = "ok"
              /\ bout.value = [i \in 1..Len(bundle) |->
                                  [k |-> bundle[i].k,
                                   v |-> [by |-> blast.fn.id, ref |-> "",
                                          on |-> bundle[i].v.id]]]
              /\ bout.visited = [i \in 1..Len(bundle) |-> bundle[i].k]
        /\ (Failing(blast.fn, bundle) # {}) =>
              /\ bret = "Error"
              /\ bout.value = <<>>
              /\ bout.visited = [i \in 1..FirstFailing(blast.fn, bundle) |-> bundle[i].k]

\* apply stopped by the second of three members: a result for the first
\* member had been computed, the third member was not visited.
C16_Witness ==
    /\ blast.op = "apply"
    /\ Len(bundle) = 3
    /\ bret = "Error"
    /\ bout.visited = <<bundle[1].k, bundle[2].k>>
    /\ bout.value = <<>>

\* C17: nodal_matches() on a bundle that has a first member returns True
\* when every member has the node set of the first inserted member and
\* False when the node set of some member differs from it; the bundle is the
\* same before and after.
C17_NodalMatchesFirst ==
    (blast.op = "nodal_matches") =>
        /\ bundle = blast.before
        /\ (bundle # <<>>) =>
              /\ bret = "ok"
              /\ bout.flag <=>
                    \A i \in 1..Len(bundle) : NodeSet(bundle[i].v) = NodeSet(bundle[1].v)

\* nodal_matches answering False for three members of which only the second
\* has other nodes than the first.
C17_Witness ==
    /\ blast.op = "nodal_matches"
    /\ Len(bundle) = 3
    /\ NodeSet(bundle[2].v) # NodeSet(bundle[1].v)
    /\ NodeSet(bundle[3].v) = NodeSet(bundle[1].v)
    /\ bret = "ok"
    /\ ~bout.flag

----------------------------------------------------------------------------
(* Further claims about the measure engine *)

\* C15: calculate_nodal_measures(force=True) on a network whose partition
\* is cached computes a new partition: calc_nodal_partition is invoked, and
\* the 'partition' graph attribute and every node's module are written from
\* what it returns.
C15_ForceRecomputesPartition ==
    [][ ( /\ last'.op = "calculate_nodal_measures"
          /\ last'.force
          /\ Has(Pre.graph, "partition") ) =>
            /\ Invoked(calls', "calc_nodal_partition")
            /\ Has(Post.graph, "partition")
            /\ \A n \in Nodes : Has(Post.node[n], "module")
            /\ Post.graph["partition"] = ModulePartition(NodesData(Post.node, "module"))
      ]_vars

\* C18: calculate_nodal_measures(force=False) computes and stores a measure
\* of its registry whenever some node lacks the attribute, also when other
\* nodes carry it: the measure's function is invoked and afterwards every
\* node carries the attribute.
C18_PartialMeasureCompleted ==
    [][ (last'.op = "calculate_nodal_measures" /\ ~last'.force) =>
          \A m \in RegistryNames(last'.measure_list, last'.additional) :
              (\E n \in Nodes : ~Has(Pre.node[n], m)) =>
                  /\ Computed(calls', m)
                  /\ \A n \in Nodes : Has(Post.node[n], m)
      ]_vars

\* The call computes modularity, the global measure that is a function of
\* the partition handed to the collaborator.
ModularityComputed ==
    /\ last'.op = "calculate_global_measures"
    /\ \/ last'.force
       \/ ~Has(Pre.graph, "global_measures")
       \/ ~Has(Pre.graph["global_measures"], "modularity")

\* C19: the nodal partition calculate_global_measures hands to the
\* global-measures collaborator gives every node of the graph a module id,
\* on every network the call can be made on, also one on which partition()
\* was never called.
C19_GlobalPartitionTotal ==
    [][ ModularityComputed =>
          \A n \in Nodes :
              Post.graph["global_measures"]["modularity"].part[n] \in ModuleIds
      ]_vars

\* C20: threshold(cost, mst) invokes threshold_graph with the cost given and
\* with minimum-spanning-tree preservation enabled exactly when mst is true:
\* threshold(cost, mst=False) invokes it with mst disabled.
C20_ThresholdHonoursFlag ==
    (last.op = "threshold") =>
        /\ Len(calls) = 1
        /\ calls[1].fn = "threshold_graph"
        /\ calls[1].cost = last.cost
        /\ calls[1].mst <=> last.mst

====
